---- MODULE Spec2Model ----
(***************************************************************************)
(* HyperDrive mock API (backend/main.py): the two seeded generators        *)
(* get_sensitivity and get_graph, served by concurrent workers.            *)
(*                                                                         *)
(* Real numbers are fixed-point.  A uniform draw u in [0,1) is an integer  *)
(* number of thousandths in 0..Scale-1; products of a draw and a tuning    *)
(* factor (0.08, 0.4) are kept exactly, in millionths, until round(., 3)   *)
(* brings them back to thousandths.                                        *)
(*                                                                         *)
(* random.Random(seed) is a deterministic stream selected by the seed.     *)
(* Here the stream of seed s is the cyclic tape read from offset s: the    *)
(* k-th draw of the instance is tape[(s + k) % TapePeriod].  The tape is   *)
(* fixed in the initial state and never changes, so a behaviour has one    *)
(* pseudo-random algorithm and the specification ranges over many.         *)
(***************************************************************************)
EXTENDS Integers, Sequences, FiniteSets, TLC

----------------------------------------------------------------------------
(* Bounds of the model *)

\* job identifiers have at most this many characters
MaxIdLen == 1

\* period of the modelled pseudo-random tape
TapePeriod == 4

\* character codes an identifier is made of: ord("a") and ord of U+02A7,
\* chosen so that 7 * 97 = 679 makes a graph seed equal a sensitivity seed
Chars == {97, 679}

\* request slots (worker threads) of the server
Slots == {1, 2}

----------------------------------------------------------------------------
(* Program constants *)

Decimals == 3
Scale == 10 ^ Decimals

MinLayers == 6
MaxLayers == 12
BaseFactor == 80
SpikeProb == 80
SpikeFactor == 400
FuseProb == 250
GraphMultiplier == 7
x_start == 50
y_start == 100
x_gap == 220

\* the candidates of rnd.choice in get_sensitivity
layer_types == <<"Conv", "Attn", "Dense", "LayerNorm">>

\* a Python str as the sequence of its characters
Str(s) ==
    CASE s = "Input"  -> <<"I", "n", "p", "u", "t">>
      [] s = "Conv_1" -> <<"C", "o", "n", "v", "_", "1">>
      [] s = "Conv_2" -> <<"C", "o", "n", "v", "_", "2">>
      [] s = "Pool"   -> <<"P", "o", "o", "l">>
      [] s = "Attn_1" -> <<"A", "t", "t", "n", "_", "1">>
      [] s = "Dense"  -> <<"D", "e", "n", "s", "e">>
      [] s = "Output" -> <<"O", "u", "t", "p", "u", "t">>
      [] s = "Conv"   -> <<"C", "o", "n", "v">>

\* the label catalog of get_graph
layer_names ==
    <<"Input", "Conv_1", "Conv_2", "Pool", "Attn_1", "Dense", "Output">>

----------------------------------------------------------------------------
(* Inputs *)

RECURSIVE StringsUpTo(_)
StringsUpTo(n) ==
    IF n = 0 THEN {<<>>}
    ELSE LET shorter == StringsUpTo(n - 1)
         IN  shorter \cup {Append(w, c) : w \in shorter, c \in Chars}

JobIds == StringsUpTo(MaxIdLen)

\* representative uniform draws, in thousandths: the bottom, the spike
\* threshold 0.08, the fusion threshold 0.25, the middle and the top
RawSeq == <<0, 80, 250, 500, 999>>
RawValues == {RawSeq[k] : k \in 1..Len(RawSeq)}

Tapes == [0..(TapePeriod - 1) -> RawValues]

\* two tapes for the concurrent specification: windows of RawSeq, cyclic
SampleTapes ==
    {[k \in 0..(TapePeriod - 1) |-> RawSeq[((a + k) % Len(RawSeq)) + 1]] :
        a \in {0, 2}}

----------------------------------------------------------------------------
VARIABLES
    tape,   \* the pseudo-random algorithm: offset -> draw (thousandths)
    rnd,    \* rnd[n]: the random.Random instance n, [seed, pos]
    req,    \* req[s]: the locals of the invocation slot s is running
    eu,     \* numeric specification: the base draw
    ev,     \* numeric specification: the spike-magnitude draw
    epc,    \* numeric specification: position
    eerr    \* numeric specification: the error value produced

vars == <<tape, rnd, req, eu, ev, epc, eerr>>

----------------------------------------------------------------------------
(* Pure helpers *)

\* sum(ord(c) for c in job_id)
RECURSIVE OrdSum(_)
OrdSum(job_id) ==
    IF job_id = <<>> THEN 0 ELSE Head(job_id) + OrdSum(Tail(job_id))

SensitivitySeed(job_id) == OrdSum(job_id)

\* faulty variant: the graph endpoint forgets its multiplier
GraphSeedUnscaled(job_id) == OrdSum(job_id)

GraphSeed(job_id) == OrdSum(job_id) * GraphMultiplier

\* faulty variant: a generator that is re-seeded but keeps its position
NewRandomKeepPos(seed, old) == [seed |-> seed, pos |-> old.pos]

\* random.Random(seed): a fresh instance at the start of the seed's stream
NewRandom(seed, old) == [seed |-> seed, pos |-> 0]

\* faulty variant: every invocation uses one module-level generator
RndInstanceShared(s) == 1

\* the instance an invocation in slot s draws from: its own local rnd
RndInstance(s) == s

\* the next value of an instance, and the instance after the draw
NextValue(r) == tape[(r.seed + r.pos) % TapePeriod]

Advance(r) == [r EXCEPT !.pos = @ + 1]

\* rnd.randint(a, b) from a uniform draw
Randint(u, a, b) == a + (u * (b - a + 1)) \div Scale

\* rnd.choice(seq) from a uniform draw
Choice(u, seq) == seq[((u * Len(seq)) \div Scale) + 1]

\* round(x, 3) of x given in millionths: nearest thousandth, ties to even
Round3(x) ==
    LET q == x \div Scale
        r == x % Scale
    IN  IF 2 * r < Scale THEN q
        ELSE IF 2 * r > Scale THEN q + 1
        ELSE IF q % 2 = 0 THEN q ELSE q + 1

\* rnd.random() * 0.08, in millionths
BaseOf(u) == u * BaseFactor

\* rnd.random() < 0.08
SpikeFires(u) == u < SpikeProb

\* faulty variant: the spike magnitude scaled by 4.0 instead of 0.4
SpikeErrTenfold(base, u) == Round3(base + u * SpikeFactor * 10)

\* round(base + rnd.random() * 0.4, 3)
SpikeErr(base, u) == Round3(base + u * SpikeFactor)

\* round(base, 3)
PlainErr(base) == Round3(base)

\* "Conv" in lname
Contains(lname, sub) ==
    \E k \in 0..(Len(lname) - Len(sub)) :
        SubSeq(lname, k + 1, k + Len(sub)) = sub

\* faulty variant: the test looks for "n" instead of "Conv"
HasConvLoose(lname) == Contains(Str(lname), <<"n">>)

HasConv(lname) == Contains(Str(lname), Str("Conv"))

\* rnd.random() < 0.25
FuseFires(u) == u < FuseProb

\* f"{layer_type}_{i}" and f"n{idx}", f"e{idx-1}": prefix and number
LayerName(layer_type, i) == <<layer_type, i>>

NodeId(idx) == <<"n", idx>>

EdgeId(idx) == <<"e", idx - 1>>

NodeX(idx) == x_start + idx * x_gap

NodeY(idx) == y_start + (idx % 2) * 30

----------------------------------------------------------------------------
(* The locals of one invocation *)

IdleReq ==
    [pc |-> "idle", endpoint |-> "none", job_id |-> <<>>,
     num_layers |-> 0, i |-> 0, layer_type |-> "none", base |-> 0, err |-> 0,
     layers |-> <<>>,
     idx |-> 0, fused |-> FALSE, nodes |-> <<>>, edges |-> <<>>,
     log |-> <<>>]

\* one entry of the draw log: which draw, for which layer or node, its value
Drawn(kind, at, u) == [kind |-> kind, at |-> at, value |-> u]

\* get_sensitivity, lines 23-25: seed, rnd, layers = []
StartSensitivity(job_id, old) ==
    [q |-> [IdleReq EXCEPT !.pc = "randint", !.endpoint = "sensitivity",
                           !.job_id = job_id],
     r |-> NewRandom(SensitivitySeed(job_id), old)]

\* get_graph, lines 46-55: seed, rnd, nodes = [], edges = []
StartGraph(job_id, old) ==
    [q |-> [IdleReq EXCEPT !.pc = "fuse", !.endpoint = "graph",
                           !.job_id = job_id],
     r |-> NewRandom(GraphSeed(job_id), old)]

\* num_layers = rnd.randint(6, 12); for i in range(1, num_layers + 1)
SensRandint(q, r) ==
    LET u == NextValue(r)
        n == Randint(u, MinLayers, MaxLayers)
    IN  [q |-> [q EXCEPT !.num_layers = n, !.i = 1,
                         !.pc = IF 1 <= n THEN "choice" ELSE "done",
                         !.log = Append(@, Drawn("randint", 0, u))],
         r |-> Advance(r)]

\* layer_type = rnd.choice([...])
SensChoice(q, r) ==
    LET u == NextValue(r)
    IN  [q |-> [q EXCEPT !.layer_type = Choice(u, layer_types),
                         !.pc = "base",
                         !.log = Append(@, Drawn("choice", q.i, u))],
         r |-> Advance(r)]

\* base = rnd.random() * 0.08
SensBase(q, r) ==
    LET u == NextValue(r)
    IN  [q |-> [q EXCEPT !.base = BaseOf(u),
                         !.pc = "check",
                         !.log = Append(@, Drawn("base", q.i, u))],
         r |-> Advance(r)]

\* faulty variant: the spike magnitude is drawn before the check, fired or not
SensCheckEager(q, r) ==
    LET u == NextValue(r)
    IN  [q |-> IF SpikeFires(u)
               THEN [q EXCEPT !.pc = "spike",
                              !.log = Append(@, Drawn("check", q.i, u))]
               ELSE [q EXCEPT !.err = PlainErr(q.base),
                              !.pc = "append",
                              !.log = Append(@, Drawn("check", q.i, u))],
         r |-> IF SpikeFires(u) THEN Advance(r) ELSE Advance(Advance(r))]

\* if rnd.random() < 0.08: ... else: err = round(base, 3)
SensCheck(q, r) ==
    LET u == NextValue(r)
    IN  [q |-> IF SpikeFires(u)
               THEN [q EXCEPT !.pc = "spike",
                              !.log = Append(@, Drawn("check", q.i, u))]
               ELSE [q EXCEPT !.err = PlainErr(q.base),
                              !.pc = "append",
                              !.log = Append(@, Drawn("check", q.i, u))],
         r |-> Advance(r)]

\* err = round(base + rnd.random() * 0.4, 3)
SensSpike(q, r) ==
    LET u == NextValue(r)
    IN  [q |-> [q EXCEPT !.err = SpikeErr(q.base, u),
                         !.pc = "append",
                         !.log = Append(@, Drawn("spike", q.i, u))],
         r |-> Advance(r)]

\* faulty variant: the loop stops one layer early, range(1, num_layers)
SensAppendShort(q, r) ==
    [q |-> [q EXCEPT !.layers =
                         Append(@, [layer |-> LayerName(q.layer_type, q.i),
                                    error |-> q.err]),
                     !.i = @ + 1,
                     !.pc = IF q.i + 1 < q.num_layers THEN "choice"
                            ELSE "done"],
     r |-> r]

\* faulty variant: the list is kept sorted by error, largest first
SensAppendSorted(q, r) ==
    LET rec == [layer |-> LayerName(q.layer_type, q.i), error |-> q.err]
        n == Cardinality({k \in 1..Len(q.layers) :
                             q.layers[k].error >= rec.error})
    IN  [q |-> [q EXCEPT !.layers = SubSeq(@, 1, n) \o <<rec>>
                                        \o SubSeq(@, n + 1, Len(@)),
                         !.i = @ + 1,
                         !.pc = IF q.i + 1 <= q.num_layers THEN "choice"
                                ELSE "done"],
         r |-> r]

\* layers.append({"layer": name, "error": err}); next i or return layers
SensAppend(q, r) ==
    [q |-> [q EXCEPT !.layers =
                         Append(@, [layer |-> LayerName(q.layer_type, q.i),
                                    error |-> q.err]),
                     !.i = @ + 1,
                     !.pc = IF q.i + 1 <= q.num_layers THEN "choice"
                            ELSE "done"],
     r |-> r]

\* faulty variant: the operands of "and" swapped, so every node draws
GraphFuseDrawFirst(q, r) ==
    LET lname == layer_names[q.idx + 1]
        u == NextValue(r)
    IN  [q |-> [q EXCEPT !.fused = FuseFires(u) /\ HasConv(lname),
                         !.pc = "node",
                         !.log = Append(@, Drawn("fuse", q.idx, u))],
         r |-> Advance(r)]

\* fused = False; if "Conv" in lname and rnd.random() < 0.25: fused = True
GraphFuse(q, r) ==
    LET lname == layer_names[q.idx + 1]
    IN  IF HasConv(lname)
        THEN LET u == NextValue(r)
             IN  [q |-> [q EXCEPT !.fused = FuseFires(u),
                                  !.pc = "node",
                                  !.log = Append(@, Drawn("fuse", q.idx, u))],
                  r |-> Advance(r)]
        ELSE [q |-> [q EXCEPT !.fused = FALSE, !.pc = "node"],
              r |-> r]

\* nodes.append({...})
GraphNode(q, r) ==
    [q |-> [q EXCEPT !.nodes =
                         Append(@, [id |-> NodeId(q.idx),
                                    label |-> layer_names[q.idx + 1],
                                    fused |-> q.fused,
                                    x |-> NodeX(q.idx),
                                    y |-> NodeY(q.idx)]),
                     !.pc = "edge"],
     r |-> r]

\* faulty variant: the guard idx > 0 dropped, an edge for the first node too
GraphEdgeAlways(q, r) ==
    [q |-> [q EXCEPT !.edges = Append(@, [id |-> EdgeId(q.idx),
                                          source |-> NodeId(q.idx - 1),
                                          target |-> NodeId(q.idx)]),
                     !.idx = @ + 1,
                     !.pc = IF q.idx + 1 < Len(layer_names) THEN "fuse"
                            ELSE "done"],
     r |-> r]

\* if idx > 0: edges.append({...}); next idx or return
GraphEdge(q, r) ==
    [q |-> [q EXCEPT !.edges =
                         IF q.idx > 0
                         THEN Append(@, [id |-> EdgeId(q.idx),
                                         source |-> NodeId(q.idx - 1),
                                         target |-> NodeId(q.idx)])
                         ELSE @,
                     !.idx = @ + 1,
                     !.pc = IF q.idx + 1 < Len(layer_names) THEN "fuse"
                            ELSE "done"],
     r |-> r]

\* the statement at q.pc
StepOf(q, r) ==
    CASE q.pc = "randint" -> SensRandint(q, r)
      [] q.pc = "choice"  -> SensChoice(q, r)
      [] q.pc = "base"    -> SensBase(q, r)
      [] q.pc = "check"   -> SensCheck(q, r)
      [] q.pc = "spike"   -> SensSpike(q, r)
      [] q.pc = "append"  -> SensAppend(q, r)
      [] q.pc = "fuse"    -> GraphFuse(q, r)
      [] q.pc = "node"    -> GraphNode(q, r)
      [] q.pc = "edge"    -> GraphEdge(q, r)

\* what the endpoint returns
Response(q) ==
    IF q.endpoint = "sensitivity" THEN q.layers
    ELSE [nodes |-> q.nodes, edges |-> q.edges]

----------------------------------------------------------------------------
(* The server *)

ServerIdle ==
    /\ rnd = [n \in Slots |-> [seed |-> 0, pos |-> 0]]
    /\ req = [s \in Slots |-> IdleReq]

NumericOff ==
    /\ eu = 0
    /\ ev = 0
    /\ epc = "off"
    /\ eerr = 0

\* slot s takes the outcome o of a statement
Take(s, o) ==
    /\ req' = [req EXCEPT ![s] = o.q]
    /\ rnd' = [rnd EXCEPT ![RndInstance(s)] = o.r]
    /\ UNCHANGED <<tape, eu, ev, epc, eerr>>

GetSensitivity(s, job_id) ==
    /\ req[s].pc \in {"idle", "done"}
    /\ Take(s, StartSensitivity(job_id, rnd[RndInstance(s)]))

GetGraph(s, job_id) ==
    /\ req[s].pc \in {"idle", "done"}
    /\ Take(s, StartGraph(job_id, rnd[RndInstance(s)]))

DrawNumLayers(s) ==
    /\ req[s].pc = "randint"
    /\ Take(s, SensRandint(req[s], rnd[RndInstance(s)]))

DrawLayerType(s) ==
    /\ req[s].pc = "choice"
    /\ Take(s, SensChoice(req[s], rnd[RndInstance(s)]))

DrawBase(s) ==
    /\ req[s].pc = "base"
    /\ Take(s, SensBase(req[s], rnd[RndInstance(s)]))

DrawSpikeCheck(s) ==
    /\ req[s].pc = "check"
    /\ Take(s, SensCheck(req[s], rnd[RndInstance(s)]))

DrawSpikeMagnitude(s) ==
    /\ req[s].pc = "spike"
    /\ Take(s, SensSpike(req[s], rnd[RndInstance(s)]))

AppendLayer(s) ==
    /\ req[s].pc = "append"
    /\ Take(s, SensAppend(req[s], rnd[RndInstance(s)]))

DecideFused(s) ==
    /\ req[s].pc = "fuse"
    /\ Take(s, GraphFuse(req[s], rnd[RndInstance(s)]))

AppendNode(s) ==
    /\ req[s].pc = "node"
    /\ Take(s, GraphNode(req[s], rnd[RndInstance(s)]))

AppendEdge(s) ==
    /\ req[s].pc = "edge"
    /\ Take(s, GraphEdge(req[s], rnd[RndInstance(s)]))

Serve(s) ==
    \/ \E job_id \in JobIds : GetSensitivity(s, job_id)
    \/ \E job_id \in JobIds : GetGraph(s, job_id)
    \/ DrawNumLayers(s)
    \/ DrawLayerType(s)
    \/ DrawBase(s)
    \/ DrawSpikeCheck(s)
    \/ DrawSpikeMagnitude(s)
    \/ AppendLayer(s)
    \/ DecideFused(s)
    \/ AppendNode(s)
    \/ AppendEdge(s)

\* concurrent workers, over a few pseudo-random algorithms
Init ==
    /\ tape \in SampleTapes
    /\ ServerIdle
    /\ NumericOff

Next == \E s \in Slots : Serve(s)

Spec == Init /\ [][Next]_vars

\* one worker, over every pseudo-random algorithm of the period
InitSeq ==
    /\ tape \in Tapes
    /\ ServerIdle
    /\ NumericOff

NextSeq == Serve(1)

SpecSeq == InitSeq /\ [][NextSeq]_vars

----------------------------------------------------------------------------
(* The error formula of get_sensitivity, lines 31-36, on every pair of     *)
(* draws in thousandths                                                    *)

InitErr ==
    /\ tape = [k \in 0..(TapePeriod - 1) |-> 0]
    /\ ServerIdle
    /\ eu \in 0..(Scale - 1)
    /\ ev = 0
    /\ epc = "check"
    /\ eerr = 0

\* if rnd.random() < 0.08: ... else: err = round(base, 3)
ErrCheck ==
    /\ epc = "check"
    /\ \E c \in 0..(Scale - 1) :
        IF SpikeFires(c)
        THEN /\ epc' = "spike"
             /\ eerr' = eerr
        ELSE /\ epc' = "plain"
             /\ eerr' = PlainErr(BaseOf(eu))
    /\ UNCHANGED <<tape, rnd, req, eu, ev>>

\* err = round(base + rnd.random() * 0.4, 3)
ErrSpike ==
    /\ epc = "spike"
    /\ \E v \in 0..(Scale - 1) :
        /\ ev' = v
        /\ eerr' = SpikeErr(BaseOf(eu), v)
    /\ epc' = "spiked"
    /\ UNCHANGED <<tape, rnd, req, eu>>

NextErr == ErrCheck \/ ErrSpike

SpecErr == InitErr /\ [][NextErr]_vars

----------------------------------------------------------------------------
(* An invocation run alone, from its first statement to its return *)

FreshRandom == [seed |-> 0, pos |-> 0]

StartOf(endpoint, job_id) ==
    IF endpoint = "sensitivity" THEN StartSensitivity(job_id, FreshRandom)
    ELSE StartGraph(job_id, FreshRandom)

\* the run alone from (q, r) passes through the locals tq and generator tr;
\* a run is at each statement (pc, i, idx) once, so only there it can match
RECURSIVE AloneReaches(_, _, _, _)
AloneReaches(q, r, tq, tr) ==
    IF q.pc = tq.pc /\ q.i = tq.i /\ q.idx = tq.idx
    THEN q = tq /\ r = tr
    ELSE IF q.pc = "done" THEN FALSE
    ELSE LET o == StepOf(q, r) IN AloneReaches(o.q, o.r, tq, tr)

Busy(s) == req[s].pc # "idle"

Done(s) == req[s].pc = "done"

IsSens(s) == req[s].endpoint = "sensitivity"

IsGraph(s) == req[s].endpoint = "graph"

\* the k-th value (from 0) of the stream of a seed
StreamValue(seed, k) == tape[(seed + k) % TapePeriod]

----------------------------------------------------------------------------
(* Claims *)

\* C1: two invocations of the same endpoint with the same identifier return
\* identical results, whatever the other slot served before or between
\* them: the result is a function of the identifier alone.
C1_Deterministic ==
    \A s \in Slots : \A t \in Slots :
        (/\ Done(s) /\ Done(t)
         /\ req[s].endpoint = req[t].endpoint
         /\ req[s].job_id = req[t].job_id)
        => Response(req[s]) = Response(req[t])

C1_Witness ==
    /\ Done(1) /\ Done(2)
    /\ IsSens(1) /\ IsSens(2)
    /\ req[1].job_id = req[2].job_id
    /\ req[1].job_id # <<>>
    /\ Len(req[1].layers) >= MinLayers

\* C2: a returned sensitivity list has a length between 6 and 12, equal to
\* the value of the first draw of the stream, rnd.randint(6, 12), for every
\* identifier (the empty one included) and every outcome of the draws.
C2_LengthInRange ==
    \A s \in Slots :
        (Done(s) /\ IsSens(s)) =>
            /\ Len(req[s].layers) \in 6..12
            /\ req[s].log[1].kind = "randint"
            /\ req[s].log[1].value = StreamValue(rnd[s].seed, 0)
            /\ Len(req[s].layers) = 6 + ((7 * req[s].log[1].value) \div 1000)

C2_Witness ==
    /\ Done(1) /\ IsSens(1)
    /\ req[1].job_id = <<>>
    /\ rnd[1].seed = 0
    /\ Len(req[1].layers) = 12

\* C3: without any clamping, the error is within [0, 1]: it is the base
\* draw times 0.08 rounded to the nearest thousandth when the spike does
\* not fire, and the base plus a second draw times 0.4 rounded to the
\* nearest thousandth when it does (draws and errors in thousandths, the
\* exact values in millionths).
C3_ErrorInRange ==
    /\ epc = "plain" =>
        /\ eerr \in 0..1000
        /\ 1000 * eerr - 80 * eu \in -500..500
    /\ epc = "spiked" =>
        /\ eerr \in 0..1000
        /\ 1000 * eerr - (80 * eu + 400 * ev) \in -500..500

C3_Witness ==
    /\ epc = "spiked"
    /\ eu = 999
    /\ ev = 999
    /\ eerr = 480

\* C4: a returned graph has exactly the 7 nodes n0..n6 labelled by the
\* catalog in order and exactly the 6 edges e0..e5, edge e<k> from n<k> to
\* n<k+1>: one chain from n0 to n6, every edge endpoint an existing node,
\* x = 50 + idx * 220 strictly increasing with the index.
C4_GraphShape ==
    \A s \in Slots :
        (Done(s) /\ IsGraph(s)) =>
            LET nodes == req[s].nodes
                edges == req[s].edges
                catalog == <<"Input", "Conv_1", "Conv_2", "Pool",
                             "Attn_1", "Dense", "Output">>
            IN  /\ Len(nodes) = 7
                /\ Len(edges) = 6
                /\ \A k \in 1..7 :
                    /\ nodes[k].id = <<"n", k - 1>>
                    /\ nodes[k].label = catalog[k]
                    /\ nodes[k].x = 50 + (k - 1) * 220
                /\ \A k \in 1..6 :
                    /\ edges[k].id = <<"e", k - 1>>
                    /\ edges[k].source = <<"n", k - 1>>
                    /\ edges[k].target = <<"n", k>>
                    /\ nodes[k].x < nodes[k + 1].x
                /\ \A k \in 1..Len(edges) :
                    /\ \E n \in 1..Len(nodes) : nodes[n].id = edges[k].source
                    /\ \E n \in 1..Len(nodes) : nodes[n].id = edges[k].target

C4_Witness ==
    /\ Done(1) /\ IsGraph(1)
    /\ req[1].job_id # <<>>
    /\ Len(req[1].edges) = 6

\* C5: a node is fused only if its label contains "Conv": Input, Pool,
\* Attn_1, Dense and Output are never fused, and Conv_1 and Conv_2 are fused
\* exactly when their own draw is below 0.25.
C5_FusedOnlyConv ==
    \A s \in Slots :
        (Done(s) /\ IsGraph(s)) =>
            \A k \in 1..Len(req[s].nodes) :
                LET node == req[s].nodes[k]
                    own == {e \in 1..Len(req[s].log) :
                                req[s].log[e].at = k - 1}
                IN  IF node.label \in {"Conv_1", "Conv_2"}
                    THEN /\ Cardinality(own) = 1
                         /\ \A e \in own :
                                node.fused <=> (req[s].log[e].value < 250)
                    ELSE node.fused = FALSE

C5_Witness ==
    /\ Done(1) /\ IsGraph(1)
    /\ req[1].nodes[2].fused
    /\ ~req[1].nodes[3].fused

\* the sum of the character codes, by index
RECURSIVE CodeTotal(_, _)
CodeTotal(job_id, k) ==
    IF k = 0 THEN 0 ELSE job_id[k] + CodeTotal(job_id, k - 1)

\* C6: the sensitivity endpoint seeds its stream with the sum of the
\* character codes and the graph endpoint with 7 times that sum; for one
\* identifier the two seeds differ exactly when the sum is nonzero, and both
\* are 0 for the empty identifier.
C6_Seeds ==
    \A s \in Slots :
        LET total == CodeTotal(req[s].job_id, Len(req[s].job_id))
        IN  /\ (Busy(s) /\ IsSens(s)) => rnd[s].seed = total
            /\ (Busy(s) /\ IsGraph(s)) => rnd[s].seed = 7 * total
            /\ \A t \in Slots :
                (/\ Busy(s) /\ IsSens(s)
                 /\ Busy(t) /\ IsGraph(t)
                 /\ req[s].job_id = req[t].job_id)
                => /\ (rnd[s].seed # rnd[t].seed) <=> (total # 0)
                   /\ req[s].job_id = <<>> =>
                        (rnd[s].seed = 0 /\ rnd[t].seed = 0)

C6_Witness ==
    /\ Busy(1) /\ IsSens(1)
    /\ Busy(2) /\ IsGraph(2)
    /\ req[1].job_id = req[2].job_id
    /\ req[1].job_id # <<>>
    /\ rnd[1].seed # rnd[2].seed

\* C7: under every interleaving of the statements of the invocations in
\* flight, each invocation is, at every statement, where it would be when
\* run alone (its locals, its result lists and its generator), so that at
\* its return it holds the result it returns when run alone.
C7_NoInterference ==
    \A s \in Slots :
        Busy(s) =>
            LET start == StartOf(req[s].endpoint, req[s].job_id)
            IN  AloneReaches(start.q, start.r, req[s], rnd[s])

C7_Witness ==
    /\ IsSens(1) /\ req[1].pc = "append" /\ req[1].i = req[1].num_layers
    /\ IsGraph(2) /\ req[2].pc = "node" /\ req[2].idx >= 2
    /\ req[1].job_id = req[2].job_id

\* C8: the record at position i is named <type>_<i>, the type being the one
\* chosen by that layer's own choice draw out of Conv, Attn, Dense,
\* LayerNorm: the suffixes are 1, 2, ..., num_layers in this order, the
\* records in generation order and not ordered by error.
C8_LayerNames ==
    \A s \in Slots :
        (Done(s) /\ IsSens(s)) =>
            /\ Len(req[s].layers) = req[s].num_layers
            /\ \A k \in 1..Len(req[s].layers) :
                LET name == req[s].layers[k].layer
                    own == {e \in 1..Len(req[s].log) :
                                /\ req[s].log[e].kind = "choice"
                                /\ req[s].log[e].at = k}
                IN  /\ name[2] = k
                    /\ name[1] \in {"Conv", "Attn", "Dense", "LayerNorm"}
                    /\ Cardinality(own) = 1
                    /\ \A e \in own :
                        name[1] = <<"Conv", "Attn", "Dense", "LayerNorm">>
                                    [((4 * req[s].log[e].value) \div 1000) + 1]

C8_Witness ==
    /\ Done(1) /\ IsSens(1)
    /\ \E k \in 1..(Len(req[1].layers) - 1) :
        req[1].layers[k].error < req[1].layers[k + 1].error
    /\ \E k \in 1..(Len(req[1].layers) - 1) :
        req[1].layers[k].error > req[1].layers[k + 1].error

\* the draw that must follow the draw d of get_sensitivity
FollowsInOrder(d, e) ==
    CASE d.kind = "randint" -> e.kind = "choice" /\ e.at = 1
      [] d.kind = "choice"  -> e.kind = "base" /\ e.at = d.at
      [] d.kind = "base"    -> e.kind = "check" /\ e.at = d.at
      [] d.kind = "check"   ->
            IF d.value < 80 THEN e.kind = "spike" /\ e.at = d.at
            ELSE e.kind = "choice" /\ e.at = d.at + 1
      [] d.kind = "spike"   -> e.kind = "choice" /\ e.at = d.at + 1
      [] OTHER -> FALSE

\* C9: get_sensitivity consumes its stream in a fixed order: the draw of
\* num_layers, then per layer the type, the base, the spike check and, only
\* when the check is below 0.08, the spike magnitude; no draw of a later
\* layer precedes one of an earlier layer, and a finished request has made
\* 1 + 3 * num_layers + (number of spikes) draws.
C9_DrawOrder ==
    \A s \in Slots :
        (Busy(s) /\ IsSens(s)) =>
            LET log == req[s].log
                spikes == {e \in 1..Len(log) : log[e].kind = "spike"}
            IN  /\ rnd[s].pos = Len(log)
                /\ \A e \in 1..Len(log) :
                    log[e].value = StreamValue(rnd[s].seed, e - 1)
                /\ Len(log) >= 1 => log[1].kind = "randint"
                /\ \A e \in 1..(Len(log) - 1) :
                    FollowsInOrder(log[e], log[e + 1])
                /\ Done(s) =>
                    Len(log) = 1 + 3 * req[s].num_layers
                                 + Cardinality(spikes)

C9_Witness ==
    /\ Done(1) /\ IsSens(1)
    /\ \E e \in 1..Len(req[1].log) : req[1].log[e].kind = "spike"
    /\ \E e \in 1..Len(req[1].log) :
        req[1].log[e].kind = "check" /\ req[1].log[e].value >= 80

\* the nodes of get_graph whose statement "fused" has run
Decided(q) ==
    IF q.pc = "fuse" THEN 0..(q.idx - 1) ELSE 0..q.idx

\* C10: get_graph draws exactly twice, for Conv_1 (index 1) and then for
\* Conv_2 (index 2); a node without "Conv" in its label leaves the position
\* of the stream unchanged, so the first value of the stream decides
\* Conv_1's flag and the second Conv_2's.
C10_GraphDraws ==
    \A s \in Slots :
        (Busy(s) /\ IsGraph(s)) =>
            LET log == req[s].log
                nodes == req[s].nodes
            IN  /\ rnd[s].pos = Cardinality(Decided(req[s]) \cap {1, 2})
                /\ Len(log) = rnd[s].pos
                /\ \A e \in 1..Len(log) :
                    /\ log[e].at = e
                    /\ log[e].value = StreamValue(rnd[s].seed, e - 1)
                /\ Done(s) =>
                    /\ rnd[s].pos = 2
                    /\ nodes[2].fused <=> (StreamValue(rnd[s].seed, 0) < 250)
                    /\ nodes[3].fused <=> (StreamValue(rnd[s].seed, 1) < 250)

C10_Witness ==
    /\ Done(1) /\ IsGraph(1)
    /\ ~req[1].nodes[2].fused
    /\ req[1].nodes[3].fused

====
